---------------------------- MODULE Spec2Model ----------------------------
(***************************************************************************)
(* Stop-limit watcher of om_Binance_bot (src/advanced/stop_limit.py).      *)
(*                                                                         *)
(* One run of stop_limit_watch is modelled as a sequential process whose   *)
(* position is pc:                                                         *)
(*   "init"     line 93-96   start = time.time(); fetch_symbol_filters     *)
(*   "quantize" line 97-110  step/tick lookup, round_qty, round_price,     *)
(*                           the qty_adj <= 0 check                        *)
(*   "loop"     line 112-116 top of while True: the timeout check          *)
(*   "poll"     line 117-128 get_last_price and the trigger decision       *)
(*   "submit"   line 130-134 place_limit_order and the return              *)
(*   "done"                  the function returned or raised               *)
(* The exchange (filters listing, price feed, order entry) and the time    *)
(* its calls take are the environment: every answer and every latency is   *)
(* chosen with \E from small sets.                                         *)
(*                                                                         *)
(* Decimal amounts (prices, quantities, step and tick sizes) are integers  *)
(* counting units of 10^-Digits; the arithmetic of round_qty/round_price   *)
(* is carried out exactly on them, so the representation error of binary   *)
(* floating point (qty/step landing just below an integer) is not part of  *)
(* this model; the final round(x, prec) is modelled as Python computes it, *)
(* to the nearest multiple of 10^-prec with ties to even.                  *)
(***************************************************************************)
EXTENDS Integers, Sequences, FiniteSets, TLC

VARIABLES
    req,              \* the arguments of stop_limit_watch (immutable)
    clock,            \* time.time()
    start,            \* local start
    pc,               \* position in stop_limit_watch
    filters,          \* local filters (dict filterType -> optional size)
    step_size,        \* local step_size (<<>> is None)
    tick_size,        \* local tick_size (<<>> is None)
    qty_adj,          \* local qty_adj
    limit_price_adj,  \* local limit_price_adj
    last_price,       \* local last_price
    polled,           \* history of get_last_price calls, oldest first
    orders,           \* history of place_limit_order calls, oldest first
    filterFetches,    \* history of fetch_symbol_filters calls, oldest first
    sleeps,           \* number of time.sleep(check_interval) calls
    outcome,          \* what stop_limit_watch returned or raised
    exchangeOrders,   \* futures_create_order calls of the watch, oldest first
    interrupted,      \* a KeyboardInterrupt was delivered to the watch
    requantized,      \* round_qty / round_price applied to their own results
    oco               \* one run of place_oco_order and its orders at the exchange

vars == <<req, clock, start, pc, filters, step_size, tick_size, qty_adj,
          limit_price_adj, last_price, polled, orders, filterFetches,
          sleeps, outcome, exchangeOrders, interrupted, requantized, oco>>

\* what a step of stop_limit_watch never touches
outside == <<interrupted, requantized, oco>>

-----------------------------------------------------------------------------
(* Bounds of the model *)

Digits == 2          \* decimal digits carried by an amount
MaxPolls == 3        \* get_last_price calls per watch
MaxElapsed == 6      \* the model follows a watch this long after its start
MaxLatency == 1      \* longest time one exchange call takes
MaxTimeout == 2      \* largest timeout argument
MaxAmount == 120     \* largest amount handed to the quantizer on its own

Scale == 10 ^ Digits

None == <<>>
Some(x) == <<x>>

Symbols == {"BTCUSDT"}
Sides == {"BUY", "SELL"}
StopPrice == 2 * Scale
FeedPrices == {StopPrice - 1, StopPrice, StopPrice + 1}
LimitPrices == {StopPrice - 13}
Qtys == {30, 160}
CheckIntervals == {1, 2}
Timeouts == 0 .. MaxTimeout
StartTimes == {0, 3}    \* time.time() when the watch is entered

\* What futures_exchange_info can list for the symbol: the filters dict that
\* fetch_symbol_filters builds ({} when the symbol is not listed).
FilterTypes == {"LOT_SIZE", "PRICE_FILTER"}
EmptyDict == [t \in {} |-> None]

Listings ==
    { EmptyDict,
      ("LOT_SIZE" :> Some(50)) @@ ("PRICE_FILTER" :> Some(10)),
      ("LOT_SIZE" :> Some(25)) @@ ("PRICE_FILTER" :> None),
      ("PRICE_FILTER" :> Some(0)) }

Requests ==
    [symbol : Symbols, side : Sides, stop_price : {StopPrice},
     limit_price : LimitPrices, qty : Qtys, check_interval : CheckIntervals,
     timeout : Timeouts, dry_run : BOOLEAN]

-----------------------------------------------------------------------------
(* Quantizer: round_qty / round_price *)

\* max(0, int(round(-math.log10(step)))) for step = s / Scale, s > 0:
\* round(-log10 step) >= p  iff  step < 10^-(p - 1/2)  iff
\* s^2 < 10^(2*(Digits-p)+1); the count of such p >= 1 is the clamped value.
Precision(s) ==
    Cardinality({p \in 1 .. Digits : s * s < 10 ^ (2 * (Digits - p) + 1)})

\* round(x, prec): nearest multiple of 10^-prec, ties to the even multiple
RoundHalfEven(x, prec) ==
    LET u  == 10 ^ (Digits - prec)
        lo == (x \div u) * u
        r  == x - lo
    IN  IF 2 * r < u THEN lo
        ELSE IF 2 * r > u THEN lo + u
        ELSE IF (x \div u) % 2 = 0 THEN lo ELSE lo + u

\* Mutant of round_qty: a step size <= 0 is not passed through
round_qty_NoPassThrough(qty, stepSize) ==
    IF stepSize = None THEN qty
    ELSE LET step == stepSize[1] IN
         IF step <= 0 THEN 0
         ELSE RoundHalfEven((qty \div step) * step, Precision(step))

round_qty(qty, stepSize) ==
    IF stepSize = None THEN qty
    ELSE LET step == stepSize[1] IN
         IF step <= 0 THEN qty
         ELSE RoundHalfEven((qty \div step) * step, Precision(step))

round_price(price, tickSize) ==
    IF tickSize = None THEN price
    ELSE LET tick == tickSize[1] IN
         IF tick <= 0 THEN price
         ELSE RoundHalfEven((price \div tick) * tick, Precision(tick))

-----------------------------------------------------------------------------
(* Results *)

NoResponse == [status |-> "NONE", symbol |-> "", side |-> "", qty |-> 0, price |-> 0]

NoOutcome == [status |-> "NONE", error |-> "NONE", trigger_price |-> 0,
              response |-> NoResponse]

Returned(status, price, resp) ==
    [status |-> status, error |-> "NONE", trigger_price |-> price, response |-> resp]

Raised(error) ==
    [status |-> "RAISED", error |-> error, trigger_price |-> 0, response |-> NoResponse]

\* place_oco_order has not been called
OcoIdle == [pc |-> "idle"]

Init ==
    /\ req \in Requests
    /\ clock \in StartTimes
    /\ start = 0
    /\ pc = "init"
    /\ filters = EmptyDict
    /\ step_size = None
    /\ tick_size = None
    /\ qty_adj = 0
    /\ limit_price_adj = 0
    /\ last_price = 0
    /\ polled = <<>>
    /\ orders = <<>>
    /\ filterFetches = <<>>
    /\ sleeps = 0
    /\ outcome = NoOutcome
    /\ exchangeOrders = <<>>
    /\ interrupted = FALSE
    /\ requantized = None
    /\ oco = OcoIdle

-----------------------------------------------------------------------------
(* Environment: time *)

Latencies == 0 .. MaxLatency

\* time.sleep(check_interval) after a call that took d
AfterSleep(d) == clock + d + req.check_interval

\* time.sleep raises ValueError for a negative length
SleepRaises == req.check_interval < 0

\* The sleep that ends an iteration (lines 136, 139, 142), after a call that
\* took d.  Every sleep of the loop is followed by the next iteration; one
\* that raises does so again in the handler of line 140 (or raises in the
\* handler it was called from) and the ValueError leaves the function after
\* `calls` calls of time.sleep.
SleepThenLoop(d, calls) ==
    IF SleepRaises
    THEN /\ clock + d - start <= MaxElapsed
         /\ clock' = clock + d
         /\ sleeps' = sleeps + calls
         /\ outcome' = Raised("ValueError")
         /\ pc' = "done"
    ELSE /\ AfterSleep(d) - start <= MaxElapsed
         /\ clock' = AfterSleep(d)
         /\ sleeps' = sleeps + 1
         /\ outcome' = outcome
         /\ pc' = "loop"

-----------------------------------------------------------------------------
(* stop_limit_watch, lines 93-110: INITIALIZING *)

\* fetch_symbol_filters(client, symbol) returns the listing's filters
FetchFiltersOk ==
    /\ pc = "init"
    /\ \E listing \in Listings, d \in Latencies :
          /\ d <= MaxElapsed
          /\ start' = clock
          /\ clock' = clock + d
          /\ filters' = listing
    /\ filterFetches' = Append(filterFetches, "OK")
    /\ pc' = "quantize"
    /\ UNCHANGED <<outside, exchangeOrders, req, step_size, tick_size, qty_adj, limit_price_adj,
                   last_price, polled, orders, sleeps, outcome>>

\* Mutant of FetchFiltersFail: the failure is swallowed and the watch goes on
\* as if the symbol were not listed
FetchFiltersFail_Swallowed ==
    /\ pc = "init"
    /\ \E d \in Latencies :
          /\ d <= MaxElapsed
          /\ start' = clock
          /\ clock' = clock + d
    /\ filterFetches' = Append(filterFetches, "ERROR")
    /\ filters' = EmptyDict
    /\ pc' = "quantize"
    /\ UNCHANGED <<outside, exchangeOrders, req, step_size, tick_size, qty_adj, limit_price_adj,
                   last_price, polled, orders, sleeps, outcome>>

\* futures_exchange_info raises: line 96 is outside any try, the exception
\* leaves stop_limit_watch
FetchFiltersFail ==
    /\ pc = "init"
    /\ \E d \in Latencies :
          /\ d <= MaxElapsed
          /\ start' = clock
          /\ clock' = clock + d
    /\ filterFetches' = Append(filterFetches, "ERROR")
    /\ outcome' = Raised("FILTER_FETCH")
    /\ pc' = "done"
    /\ UNCHANGED <<outside, exchangeOrders, req, filters, step_size, tick_size, qty_adj,
                   limit_price_adj, last_price, polled, orders, sleeps>>

\* filters[t].get(key) when t is in filters, else None (lines 97-102)
FilterSize(f, t) == IF t \in DOMAIN f THEN f[t] ELSE None

\* Mutant of QtyRejected: only a negative quantity is rejected
QtyRejected_NegativeOnly(q) == q < 0

\* line 107: if qty_adj <= 0: raise ValueError
QtyRejected(q) == q <= 0

Quantize ==
    /\ pc = "quantize"
    /\ step_size' = FilterSize(filters, "LOT_SIZE")
    /\ tick_size' = FilterSize(filters, "PRICE_FILTER")
    /\ qty_adj' = round_qty(req.qty, step_size')
    /\ limit_price_adj' = round_price(req.limit_price, tick_size')
    /\ IF QtyRejected(qty_adj')
          THEN /\ outcome' = Raised("ZERO_QTY")
               /\ pc' = "done"
          ELSE /\ outcome' = outcome
               /\ pc' = "loop"
    /\ UNCHANGED <<outside, exchangeOrders, req, clock, start, filters, last_price, polled, orders,
                   filterFetches, sleeps>>

-----------------------------------------------------------------------------
(* stop_limit_watch, lines 112-142: POLLING *)

\* Mutant of TimedOut: the deadline itself already counts as exceeded
TimedOut_AtDeadline(timeout, elapsed) == timeout # 0 /\ elapsed >= timeout

\* Mutant of TimedOut: the deadline is never seen as exceeded
TimedOut_Never(timeout, elapsed) == FALSE

\* line 114: if timeout and (now - start) > timeout
TimedOut(timeout, elapsed) == timeout # 0 /\ elapsed > timeout

CheckTimeout ==
    /\ pc = "loop"
    /\ IF TimedOut(req.timeout, clock - start)
          THEN /\ outcome' = Returned("TIMEOUT", 0, NoResponse)
               /\ pc' = "done"
          ELSE /\ outcome' = outcome
               /\ pc' = "poll"
    /\ UNCHANGED <<outside, exchangeOrders, req, clock, start, filters, step_size, tick_size, qty_adj,
                   limit_price_adj, last_price, polled, orders, filterFetches,
                   sleeps>>

\* Mutant of isTriggered: the boundary does not trigger a SELL
isTriggered_StrictSell(side, stopPrice, lastPrice) ==
    IF side = "SELL" THEN lastPrice < stopPrice ELSE lastPrice >= stopPrice

\* lines 120-128: the trigger decision
isTriggered(side, stopPrice, lastPrice) ==
    IF side = "SELL" THEN lastPrice <= stopPrice ELSE lastPrice >= stopPrice

\* get_last_price returns p: decide; not triggered sleeps and loops (line 136)
PollOk ==
    /\ pc = "poll"
    /\ Len(polled) < MaxPolls
    /\ \E p \in FeedPrices, d \in Latencies :
          LET trig == isTriggered(req.side, req.stop_price, p) IN
          /\ last_price' = p
          /\ polled' = Append(polled, [ok |-> TRUE, price |-> p, triggered |-> trig])
          /\ IF trig
                THEN /\ clock + d - start <= MaxElapsed
                     /\ clock' = clock + d
                     /\ sleeps' = sleeps
                     /\ outcome' = outcome
                     /\ pc' = "submit"
                ELSE SleepThenLoop(d, 2)
    /\ UNCHANGED <<outside, exchangeOrders, req, start, filters, step_size, tick_size, qty_adj,
                   limit_price_adj, orders, filterFetches>>

\* Mutant of PollFail: a failed price fetch ends the watch
PollFail_Fatal ==
    /\ pc = "poll"
    /\ Len(polled) < MaxPolls
    /\ \E d \in Latencies :
          /\ clock + d - start <= MaxElapsed
          /\ clock' = clock + d
    /\ polled' = Append(polled, [ok |-> FALSE, price |-> 0, triggered |-> FALSE])
    /\ outcome' = Raised("MARKET_DATA")
    /\ pc' = "done"
    /\ UNCHANGED <<outside, exchangeOrders, req, start, filters, step_size, tick_size, qty_adj,
                   limit_price_adj, last_price, orders, filterFetches, sleeps>>

\* get_last_price raises (lines 137-142): log, sleep, next iteration
PollFail ==
    /\ pc = "poll"
    /\ Len(polled) < MaxPolls
    /\ \E d \in Latencies : SleepThenLoop(d, 1)
    /\ polled' = Append(polled, [ok |-> FALSE, price |-> 0, triggered |-> FALSE])
    /\ UNCHANGED <<outside, exchangeOrders, req, start, filters, step_size, tick_size, qty_adj,
                   limit_price_adj, last_price, orders, filterFetches>>

\* Mutant of OrderArgs: the requested quantity and price go out unadjusted
OrderArgs_Raw ==
    [symbol |-> req.symbol, side |-> req.side, qty |-> req.qty,
     price |-> req.limit_price]

\* line 132: the arguments handed to place_limit_order
OrderArgs ==
    [symbol |-> req.symbol, side |-> req.side, qty |-> qty_adj,
     price |-> limit_price_adj]

\* one place_limit_order call as recorded in orders
OrderCall(result) ==
    [args |-> OrderArgs, dry_run |-> req.dry_run, result |-> result,
     trigger_price |-> last_price, poll |-> Len(polled)]

\* place_limit_order lines 80-81: the synthetic result
DryRunResponse(a) ==
    [status |-> "DRY_RUN", symbol |-> a.symbol, side |-> a.side, qty |-> a.qty,
     price |-> a.price, time |-> clock]

\* place_limit_order lines 82-89: the request futures_create_order sends
\* (str(qty), str(price) are the shortest decimal text of the same amounts)
ExchangeRequest(a) ==
    [symbol |-> a.symbol, side |-> a.side, type |-> "LIMIT",
     timeInForce |-> "GTC", quantity |-> a.qty, price |-> a.price]

\* what futures_create_order answers for an accepted order
ExchangeResponse(a) ==
    [status |-> "NEW", symbol |-> a.symbol, side |-> a.side, qty |-> a.qty,
     price |-> a.price]

\* Mutant of SubmitDryRun: the dry_run flag is ignored, the order goes out
SubmitDryRun_Sends ==
    /\ pc = "submit"
    /\ req.dry_run
    /\ orders' = Append(orders, OrderCall("SENT"))
    /\ exchangeOrders' = Append(exchangeOrders, ExchangeRequest(OrderArgs))
    /\ outcome' = Returned("FILLED_OR_SENT", last_price, ExchangeResponse(OrderArgs))
    /\ pc' = "done"
    /\ UNCHANGED <<outside, req, clock, start, filters, step_size, tick_size,
                   qty_adj, limit_price_adj, last_price, polled, filterFetches,
                   sleeps>>

SubmitDryRun ==
    /\ pc = "submit"
    /\ req.dry_run
    /\ orders' = Append(orders, OrderCall("DRY_RUN"))
    /\ outcome' = Returned("FILLED_OR_SENT", last_price, DryRunResponse(OrderArgs))
    /\ pc' = "done"
    /\ UNCHANGED <<outside, exchangeOrders, req, clock, start, filters, step_size, tick_size, qty_adj,
                   limit_price_adj, last_price, polled, filterFetches, sleeps>>

\* Mutant of SubmitLive: the result is reported but the loop is not left
SubmitLive_KeepsWatching ==
    /\ pc = "submit"
    /\ ~req.dry_run
    /\ \E d \in Latencies :
          /\ AfterSleep(d) - start <= MaxElapsed
          /\ clock' = AfterSleep(d)
    /\ orders' = Append(orders, OrderCall("SENT"))
    /\ exchangeOrders' = Append(exchangeOrders, ExchangeRequest(OrderArgs))
    /\ outcome' = Returned("FILLED_OR_SENT", last_price, ExchangeResponse(OrderArgs))
    /\ sleeps' = sleeps + 1
    /\ pc' = "loop"
    /\ UNCHANGED <<outside, req, start, filters, step_size, tick_size, qty_adj,
                   limit_price_adj, last_price, polled, filterFetches>>

SubmitLive ==
    /\ pc = "submit"
    /\ ~req.dry_run
    /\ \E d \in Latencies :
          /\ clock + d - start <= MaxElapsed
          /\ clock' = clock + d
    /\ orders' = Append(orders, OrderCall("SENT"))
    /\ exchangeOrders' = Append(exchangeOrders, ExchangeRequest(OrderArgs))
    /\ outcome' = Returned("FILLED_OR_SENT", last_price, ExchangeResponse(OrderArgs))
    /\ pc' = "done"
    /\ UNCHANGED <<outside, req, start, filters, step_size, tick_size, qty_adj,
                   limit_price_adj, last_price, polled, filterFetches, sleeps>>

\* futures_create_order raises inside the try of line 117: the handlers of
\* lines 137-142 log, sleep and the loop goes on
SubmitError ==
    /\ pc = "submit"
    /\ ~req.dry_run
    /\ \E d \in Latencies : SleepThenLoop(d, 1)
    /\ orders' = Append(orders, OrderCall("ERROR"))
    /\ exchangeOrders' = Append(exchangeOrders, ExchangeRequest(OrderArgs))
    /\ UNCHANGED <<outside, req, start, filters, step_size, tick_size, qty_adj,
                   limit_price_adj, last_price, polled, filterFetches>>

Next ==
    \/ FetchFiltersOk
    \/ FetchFiltersFail
    \/ Quantize
    \/ CheckTimeout
    \/ PollOk
    \/ PollFail
    \/ SubmitDryRun
    \/ SubmitLive
    \/ SubmitError

Spec == Init /\ [][Next]_vars

\* The watch is one sequential function: while it has a next step (a call
\* that returns or raises, a sleep that ends) it takes one.
FairSpec == Spec /\ WF_vars(Next)

-----------------------------------------------------------------------------
(* A user interrupt (SIGINT) while the watch runs.  KeyboardInterrupt is not *)
(* an Exception, so neither handler of lines 137-142 catches it, and main    *)
(* (line 173) has no handler either: it leaves stop_limit_watch from where   *)
(* the watch is blocked (a request or time.sleep).                           *)

\* Mutant of Interrupt: the loop's handlers catch the interrupt like any
\* other error, sleep and go on
Interrupt_Caught ==
    /\ pc \in {"loop", "poll", "submit"}
    /\ ~interrupted
    /\ interrupted' = TRUE
    /\ AfterSleep(0) - start <= MaxElapsed
    /\ clock' = AfterSleep(0)
    /\ sleeps' = sleeps + 1
    /\ pc' = "loop"
    /\ UNCHANGED <<req, start, filters, step_size, tick_size, qty_adj,
                   limit_price_adj, last_price, polled, orders, filterFetches,
                   outcome, exchangeOrders, requantized, oco>>

Interrupt ==
    /\ pc # "done"
    /\ ~interrupted
    /\ interrupted' = TRUE
    /\ outcome' = Raised("KeyboardInterrupt")
    /\ pc' = "done"
    /\ UNCHANGED <<req, clock, start, filters, step_size, tick_size, qty_adj,
                   limit_price_adj, last_price, polled, orders, filterFetches,
                   sleeps, exchangeOrders, requantized, oco>>

INext ==
    \/ Next
    \/ Interrupt

SpecInterrupt == Init /\ [][INext]_vars

-----------------------------------------------------------------------------
(* The command line: main, lines 157-176.  validate_quantity and            *)
(* validate_price are imported from src.utils.validator, which is not among  *)
(* the sources; they are taken to do what the specification requires of the  *)
(* command surface.                                                          *)

\* src.utils.validator.validate_quantity: accepts a positive quantity
validate_quantity(q) == q > 0

\* src.utils.validator.validate_price: accepts a positive price
validate_price(x) == x > 0

\* lines 161-170: what main validates before it starts the watch
ArgsRejected(a) ==
    \/ ~validate_quantity(a.qty)
    \/ ~validate_price(a.stop_price)
    \/ ~validate_price(a.limit_price)

\* what argparse accepts (lines 146-154): float prices, a quantity, int
\* check-interval and timeout of either sign
CliRequests ==
    [symbol : Symbols, side : Sides, stop_price : {0, StopPrice},
     limit_price : {-1, StopPrice - 13}, qty : {0, 30},
     check_interval : {-1, 0, 1}, timeout : {-1, 0, 1}, dry_run : BOOLEAN]

CliInit ==
    /\ req \in CliRequests
    /\ clock \in StartTimes
    /\ start = 0
    /\ pc = "main"
    /\ filters = EmptyDict
    /\ step_size = None
    /\ tick_size = None
    /\ qty_adj = 0
    /\ limit_price_adj = 0
    /\ last_price = 0
    /\ polled = <<>>
    /\ orders = <<>>
    /\ filterFetches = <<>>
    /\ sleeps = 0
    /\ outcome = NoOutcome
    /\ exchangeOrders = <<>>
    /\ interrupted = FALSE
    /\ requantized = None
    /\ oco = OcoIdle

\* main: sys.exit(1) on a validation error, else stop_limit_watch is called
Main ==
    /\ pc = "main"
    /\ IF ArgsRejected(req)
          THEN /\ outcome' = Raised("VALIDATION")
               /\ pc' = "done"
          ELSE /\ outcome' = outcome
               /\ pc' = "init"
    /\ UNCHANGED <<req, clock, start, filters, step_size, tick_size, qty_adj,
                   limit_price_adj, last_price, polled, orders, filterFetches,
                   sleeps, exchangeOrders, interrupted, requantized, oco>>

CliNext ==
    \/ Main
    \/ Next

SpecCli == CliInit /\ [][CliNext]_vars

-----------------------------------------------------------------------------
(* place_oco_order (src/advanced/oco.py) and the orders it leaves at the    *)
(* exchange.  The three futures_create_order requests carry nothing that    *)
(* links them (no reduceOnly, no closePosition, no list id): the exchange   *)
(* holds each exit as an order of its own, which stays NEW until its price  *)
(* is reached, and the script ends after placing them.                      *)

OcoQtys == {0, 1, 2}
OcoTpPrices == {0, StopPrice + 10, StopPrice + 20}
OcoSlPrices == {0, StopPrice - 10}

\* the stop-limit watch is not running
watchVars == <<req, clock, start, pc, filters, step_size, tick_size, qty_adj,
               limit_price_adj, last_price, polled, orders, filterFetches,
               sleeps, outcome, exchangeOrders, interrupted, requantized>>

NoRequest ==
    [symbol |-> "BTCUSDT", side |-> "SELL", stop_price |-> StopPrice,
     limit_price |-> StopPrice, qty |-> 1, check_interval |-> 1,
     timeout |-> 0, dry_run |-> TRUE]

OcoInit ==
    /\ req = NoRequest
    /\ clock = 0
    /\ start = 0
    /\ pc = "idle"
    /\ filters = EmptyDict
    /\ step_size = None
    /\ tick_size = None
    /\ qty_adj = 0
    /\ limit_price_adj = 0
    /\ last_price = 0
    /\ polled = <<>>
    /\ orders = <<>>
    /\ filterFetches = <<>>
    /\ sleeps = 0
    /\ outcome = NoOutcome
    /\ exchangeOrders = <<>>
    /\ interrupted = FALSE
    /\ requantized = None
    /\ oco \in [pc : {"start"}, result : {"NONE"}, symbol : Symbols,
                side : Sides, quantity : OcoQtys, tp_price : OcoTpPrices,
                sl_price : OcoSlPrices, dry_run : BOOLEAN, book : {<<>>}]

\* line 45
OppositeSide(side) == IF side = "BUY" THEN "SELL" ELSE "BUY"

\* lines 37-66: validate_inputs (utils.py 28-49), the price checks, dry run
OcoValidate ==
    /\ oco.pc = "start"
    /\ oco' = IF oco.quantity <= 0 \/ oco.tp_price <= 0 \/ oco.sl_price <= 0
              THEN [oco EXCEPT !.pc = "done", !.result = "ValueError"]
              ELSE IF oco.dry_run
              THEN [oco EXCEPT !.pc = "done", !.result = "DRY_RUN"]
              ELSE [oco EXCEPT !.pc = "entry"]
    /\ UNCHANGED watchVars

\* lines 75-80: the MARKET entry, executed by the exchange on arrival
OcoPlaceEntry ==
    /\ oco.pc = "entry"
    /\ oco' = [oco EXCEPT !.pc = "tp",
                 !.book = Append(@, [role |-> "ENTRY", side |-> oco.side,
                     type |-> "MARKET", quantity |-> oco.quantity,
                     price |-> 0, status |-> "FILLED"])]
    /\ UNCHANGED watchVars

\* lines 84-91: the take-profit LIMIT order
OcoPlaceTp ==
    /\ oco.pc = "tp"
    /\ oco' = [oco EXCEPT !.pc = "sl",
                 !.book = Append(@, [role |-> "TP", side |-> OppositeSide(oco.side),
                     type |-> "LIMIT", quantity |-> oco.quantity,
                     price |-> oco.tp_price, status |-> "NEW"])]
    /\ UNCHANGED watchVars

\* lines 95-107: the stop-loss STOP_MARKET order, then the script is done
OcoPlaceSl ==
    /\ oco.pc = "sl"
    /\ oco' = [oco EXCEPT !.pc = "done", !.result = "PLACED",
                 !.book = Append(@, [role |-> "SL", side |-> OppositeSide(oco.side),
                     type |-> "STOP_MARKET", quantity |-> oco.quantity,
                     price |-> oco.sl_price, status |-> "NEW"])]
    /\ UNCHANGED watchVars

\* lines 109-115: a futures_create_order call raises; logged, the script ends
\* and the orders already placed stay
OcoPlaceFails ==
    /\ oco.pc \in {"entry", "tp", "sl"}
    /\ oco' = [oco EXCEPT !.pc = "done", !.result = "ERROR"]
    /\ UNCHANGED watchVars

\* the exchange: the market reaches the price of an open exit order
ExchangeFills ==
    /\ \E i \in 1 .. Len(oco.book) :
          /\ oco.book[i].status = "NEW"
          /\ oco' = [oco EXCEPT !.book[i].status = "FILLED"]
    /\ UNCHANGED watchVars

OcoNext ==
    \/ OcoValidate
    \/ OcoPlaceEntry
    \/ OcoPlaceTp
    \/ OcoPlaceSl
    \/ OcoPlaceFails
    \/ ExchangeFills

SpecOco == OcoInit /\ [][OcoNext]_vars

-----------------------------------------------------------------------------
(* The quantizer on its own: lines 97-110 over a range of amounts and unit  *)
(* sizes, then round_qty / round_price applied to their own results         *)

QAmounts == 0 .. MaxAmount
\* unit sizes: none, not positive, powers of ten, and 0.25 and 0.5 (for
\* Digits = 2), whose multiples binary floating point holds exactly
QUnits == {None, Some(-5), Some(0), Some(1), Some(10), Some(25), Some(50),
           Some(100)}

\* every filters dict over LOT_SIZE / PRICE_FILTER with these unit sizes
QListings ==
    UNION {[T -> QUnits] : T \in SUBSET FilterTypes}

QRequests ==
    {[symbol |-> "BTCUSDT", side |-> "SELL", stop_price |-> StopPrice,
      limit_price |-> MaxAmount - v, qty |-> v, check_interval |-> 1,
      timeout |-> 0, dry_run |-> TRUE] : v \in QAmounts}

\* the watch right after fetch_symbol_filters returned
QInit ==
    /\ req \in QRequests
    /\ clock = 0
    /\ start = 0
    /\ pc = "quantize"
    /\ filters \in QListings
    /\ step_size = None
    /\ tick_size = None
    /\ qty_adj = 0
    /\ limit_price_adj = 0
    /\ last_price = 0
    /\ polled = <<>>
    /\ orders = <<>>
    /\ filterFetches = <<"OK">>
    /\ sleeps = 0
    /\ outcome = NoOutcome
    /\ exchangeOrders = <<>>
    /\ interrupted = FALSE
    /\ requantized = None
    /\ oco = OcoIdle

\* round_qty(round_qty(qty, step), step) and the same for round_price
Requantize ==
    /\ pc \in {"loop", "done"}
    /\ requantized = None
    /\ requantized' = Some([qty |-> round_qty(qty_adj, step_size),
                            price |-> round_price(limit_price_adj, tick_size)])
    /\ UNCHANGED <<req, clock, start, pc, filters, step_size, tick_size,
                   qty_adj, limit_price_adj, last_price, polled, orders,
                   filterFetches, sleeps, outcome, exchangeOrders,
                   interrupted, oco>>

QNext ==
    \/ Quantize
    \/ Requantize

SpecQuantizer == QInit /\ [][QNext]_vars

-----------------------------------------------------------------------------
(* Properties *)

\* The trigger condition as the specification words it
SpecTriggered(side, stopPrice, lastPrice) ==
    \/ side = "SELL" /\ lastPrice <= stopPrice
    \/ side = "BUY" /\ lastPrice >= stopPrice

Polls == 1 .. Len(polled)
Submissions == 1 .. Len(orders)
MarketDataErrors == Cardinality({i \in Polls : ~polled[i].ok})
Polling == pc \in {"loop", "poll", "submit"}
Triggered == pc = "done" /\ outcome.status = "FILLED_OR_SENT"
TimedOutOutcome == pc = "done" /\ outcome.status = "TIMEOUT"
Failed == pc = "done" /\ outcome.status = "RAISED"

\* C1: in one watch place_limit_order is invoked at most once; a failed
\* submission is never retried.
C1_AtMostOneSubmission == Len(orders) <= 1

\* C2: once a submission has failed the watch has terminated with an outcome
\* that carries the trigger price of that submission and the order error; it
\* is not polling again and has not timed out or succeeded later.
C2_SubmitFailureIsTerminal ==
    \A i \in Submissions :
        orders[i].result = "ERROR" =>
            /\ pc = "done"
            /\ outcome.error # "NONE"
            /\ outcome.trigger_price = orders[i].trigger_price

\* C3: every trigger decision taken by the watch equals the specification's
\* isTriggered(side, stopPrice, lastPrice): SELL iff last <= stop, BUY iff
\* last >= stop, whatever was polled before; the boundary triggers both sides.
C3_TriggerDecision ==
    /\ \A i \in Polls :
          polled[i].ok =>
              (polled[i].triggered <=>
                   SpecTriggered(req.side, req.stop_price, polled[i].price))
    /\ \A i \in Polls :
          polled[i].ok /\ polled[i].price = req.stop_price => polled[i].triggered

C3_Witness ==
    \E i \in Polls :
        /\ i > 1
        /\ polled[i].ok
        /\ polled[i].price = req.stop_price
        /\ polled[i].triggered
        /\ req.side = "SELL"

\* C4: every order submission happens in a poll iteration whose fetched price
\* satisfies the trigger condition, carries the request's symbol and side and
\* the quantity and limit price adjusted before the loop, and a TRIGGERED
\* outcome reports exactly the price fetched in that iteration.
C4_OrderOnlyOnTrigger ==
    /\ \A i \in Submissions :
          LET o == orders[i] IN
          /\ o.poll \in Polls
          /\ polled[o.poll].ok
          /\ polled[o.poll].price = o.trigger_price
          /\ SpecTriggered(req.side, req.stop_price, o.trigger_price)
          /\ o.args.symbol = req.symbol
          /\ o.args.side = req.side
          /\ o.args.qty = qty_adj
          /\ o.args.price = limit_price_adj
          /\ qty_adj = round_qty(req.qty, FilterSize(filters, "LOT_SIZE"))
          /\ limit_price_adj = round_price(req.limit_price, FilterSize(filters, "PRICE_FILTER"))
    /\ Triggered =>
          /\ orders # <<>>
          /\ orders[Len(orders)].poll = Len(polled)
          /\ outcome.trigger_price = polled[Len(polled)].price
          /\ outcome.response.qty = qty_adj
          /\ outcome.response.price = limit_price_adj
    /\ pc = "submit" => polled # <<>> /\ polled[Len(polled)].ok
                        /\ polled[Len(polled)].price = last_price
                        /\ SpecTriggered(req.side, req.stop_price, last_price)

C4_Witness ==
    /\ Triggered
    /\ orders[Len(orders)].args.qty # req.qty
    /\ orders[Len(orders)].args.price # req.limit_price
    /\ ~req.dry_run

\* C5: with no failed price fetch, once the iteration that polled the first
\* triggering price is over the watch has terminated TRIGGERED after exactly
\* that many polls, with exactly one order submission and that price reported.
C5_TerminatesAtFirstTrigger ==
    LET hits == {i \in Polls : polled[i].ok /\
                     SpecTriggered(req.side, req.stop_price, polled[i].price)}
    IN  ((\A i \in Polls : polled[i].ok) /\ hits # {} /\ pc # "submit") =>
            LET k == CHOOSE i \in hits : \A j \in hits : i <= j IN
            /\ Triggered
            /\ Len(polled) = k
            /\ Len(orders) = 1
            /\ outcome.trigger_price = polled[k].price

\* C6: a watch whose outcome is TIMED_OUT has invoked place_limit_order zero
\* times.
C6_TimedOutWithoutSubmission == TimedOutOutcome => Len(orders) = 0

\* C7: the timeout is checked at the top of every iteration, before the
\* price fetch: the watch times out exactly when timeout > 0 and the elapsed
\* time strictly exceeds it (elapsed = timeout still polls), and then neither
\* fetches a price nor submits; a poll only follows a check that passed; with
\* timeout = 0 the watch never times out.
C7_Expired == req.timeout > 0 /\ clock - start > req.timeout

C7_TimeoutCheck ==
    /\ [][pc = "loop" =>
            /\ C7_Expired => /\ pc' = "done"
                             /\ outcome'.status = "TIMEOUT"
                             /\ polled' = polled
                             /\ orders' = orders
            /\ ~C7_Expired => pc' = "poll" /\ outcome' = outcome]_vars
    /\ [][Len(polled') > Len(polled) => pc = "poll" /\ ~C7_Expired]_vars
    /\ [][outcome'.status = "TIMEOUT" /\ outcome.status # "TIMEOUT" =>
            pc = "loop" /\ C7_Expired]_vars
    /\ [][pc' = "poll" => pc = "loop"]_vars
    /\ [](TimedOutOutcome => req.timeout > 0)

C7_Witness == TimedOutOutcome /\ Len(polled) >= 2 /\ orders = <<>>

\* C8: a failed price fetch is not fatal and causes no order: the watch
\* sleeps check_interval and is back at the top of the loop with no outcome;
\* a watch whose first poll failed and whose second poll triggered ends
\* TRIGGERED with one market-data error and exactly one submission.
C8_FetchFailureRetried ==
    /\ [][(Len(polled') = Len(polled) + 1 /\ ~polled'[Len(polled')].ok) =>
            /\ pc' = "loop"
            /\ outcome' = NoOutcome
            /\ orders' = orders
            /\ sleeps' = sleeps + 1
            /\ clock' >= clock + req.check_interval]_vars
    /\ []((Triggered /\ Len(polled) = 2 /\ ~polled[1].ok) =>
            MarketDataErrors = 1 /\ Len(orders) = 1)
    /\ [](Failed => \A i \in Polls : polled[i].ok)

C8_Witness ==
    /\ Triggered
    /\ Len(polled) = 2
    /\ ~polled[1].ok
    /\ MarketDataErrors = 1
    /\ Len(orders) = 1

\* C9: fetch_symbol_filters is called exactly once per watch, before the
\* quantization and before any price poll, never during POLLING; when it
\* fails the watch has failed without a second fetch, a poll or an order.
C9_FiltersFetchedOnce ==
    /\ Len(filterFetches) <= 1
    /\ pc = "init" <=> filterFetches = <<>>
    /\ pc = "init" => polled = <<>> /\ orders = <<>> /\ sleeps = 0
    /\ (\E i \in 1 .. Len(filterFetches) : filterFetches[i] = "ERROR") =>
          /\ Failed
          /\ filterFetches = <<"ERROR">>
          /\ polled = <<>>
          /\ orders = <<>>
          /\ step_size = None /\ tick_size = None

C9_Witness == filterFetches = <<"ERROR">> /\ Failed /\ clock > start

\* C10: when the quantity quantized to stepSize is <= 0 the watch fails with
\* the configuration error straight from INITIALIZING, with no poll and no
\* order; wherever the watch is polling or has submitted, the adjusted
\* quantity is strictly positive.
C10_PositiveAdjustedQty ==
    /\ Polling => qty_adj > 0
    /\ polled # <<>> => qty_adj > 0
    /\ \A i \in Submissions : orders[i].args.qty > 0
    /\ (filterFetches = <<"OK">> /\ pc # "quantize" /\
        round_qty(req.qty, FilterSize(filters, "LOT_SIZE")) <= 0) =>
          /\ Failed
          /\ outcome.error = "ZERO_QTY"
          /\ polled = <<>>
          /\ orders = <<>>
          /\ sleeps = 0

C10_Witness ==
    /\ Failed
    /\ outcome.error = "ZERO_QTY"
    /\ req.qty > 0
    /\ step_size # None

\* C11: with dry_run true the watch never calls futures_create_order: every
\* place_limit_order call returns the synthetic DRY_RUN result echoing the
\* symbol, side, adjusted quantity and adjusted price, and a triggering poll
\* ends the watch TRIGGERED with that result, as an accepted live order does.
C11_DryRunNeverSends ==
    req.dry_run =>
        /\ exchangeOrders = <<>>
        /\ \A i \in Submissions : orders[i].result = "DRY_RUN"
        /\ (polled # <<>> /\ polled[Len(polled)].triggered /\ pc # "submit")
              => Triggered
        /\ Triggered =>
              /\ Len(orders) = 1
              /\ outcome.response.status = "DRY_RUN"
              /\ outcome.response.symbol = req.symbol
              /\ outcome.response.side = req.side
              /\ outcome.response.qty = qty_adj
              /\ outcome.response.price = limit_price_adj
              /\ outcome.trigger_price = polled[Len(polled)].price

C11_Witness ==
    /\ req.dry_run
    /\ Triggered
    /\ outcome.response.status = "DRY_RUN"
    /\ outcome.response.qty # req.qty
    /\ Len(polled) >= 2

\* The unit size the listing gives for a filter type, when it constrains
UnitOf(t) ==
    IF t \in DOMAIN filters /\ filters[t] # None /\ filters[t][1] > 0
    THEN filters[t][1] ELSE 0

Quantized == pc # "quantize" /\ filterFetches = <<"OK">>

\* C12: for v > 0 and unit size u > 0 the quantized amount is the largest
\* multiple of u not exceeding v: a multiple of u, <= v, never rounded up by
\* the final rounding to the unit's precision (round_qty and round_price).
C12_LargestMultipleBelow ==
    Quantized =>
        /\ (req.qty > 0 /\ UnitOf("LOT_SIZE") > 0) =>
              /\ qty_adj <= req.qty
              /\ qty_adj % UnitOf("LOT_SIZE") = 0
              /\ qty_adj + UnitOf("LOT_SIZE") > req.qty
        /\ (req.limit_price > 0 /\ UnitOf("PRICE_FILTER") > 0) =>
              /\ limit_price_adj <= req.limit_price
              /\ limit_price_adj % UnitOf("PRICE_FILTER") = 0
              /\ limit_price_adj + UnitOf("PRICE_FILTER") > req.limit_price

\* C13: quantizing an already quantized amount with the same unit size
\* changes nothing (round_qty and round_price are idempotent).
C13_Idempotent ==
    requantized # None =>
        /\ requantized[1].qty = qty_adj
        /\ requantized[1].price = limit_price_adj

\* C14: with a unit size that is absent or <= 0 the amount comes back
\* unchanged; for an instrument that is not listed (no filters at all) the
\* watch goes on to polling with the requested quantity and limit price.
C14_NoUnitPassThrough ==
    Quantized =>
        /\ UnitOf("LOT_SIZE") = 0 => qty_adj = req.qty
        /\ UnitOf("PRICE_FILTER") = 0 => limit_price_adj = req.limit_price
        /\ (filters = EmptyDict /\ req.qty > 0) =>
              /\ pc = "loop"
              /\ qty_adj = req.qty
              /\ limit_price_adj = req.limit_price
              /\ step_size = None /\ tick_size = None

C14_Witness ==
    /\ Quantized
    /\ pc = "loop"
    /\ filters = EmptyDict
    /\ qty_adj = req.qty
    /\ limit_price_adj = req.limit_price
    /\ req.qty > 0

C16_NonPositiveRejected ==
    (\/ req.stop_price <= 0
     \/ req.limit_price <= 0
     \/ req.qty <= 0
     \/ req.check_interval <= 0
     \/ req.timeout < 0) =>
        /\ filterFetches = <<>>
        /\ polled = <<>>
        /\ orders = <<>>
        /\ pc \in {"main", "done"}

\* C17: once entry, take-profit and stop-loss are placed, an exit order that
\* fills cancels the other one: the other exit is CANCELED, never still open
\* and never executed too.
OcoExits == {i \in 1 .. Len(oco.book) : oco.book[i].role \in {"TP", "SL"}}

C17_OneCancelsTheOther ==
    oco.result = "PLACED" =>
        \A i \in OcoExits, j \in OcoExits :
            (i # j /\ oco.book[i].status = "FILLED") =>
                oco.book[j].status = "CANCELED"

\* C18: the watch moves only INITIALIZING -> POLLING -> {TRIGGERED,
\* TIMED_OUT, FAILED} or INITIALIZING -> FAILED; a terminal state is never
\* left, nothing is polled, slept or submitted after it, and the watch has an
\* outcome exactly when it is over.
WatchState ==
    IF pc \in {"init", "quantize"} THEN "INITIALIZING"
    ELSE IF pc \in {"loop", "poll", "submit"} THEN "POLLING"
    ELSE IF outcome.status = "FILLED_OR_SENT" THEN "TRIGGERED"
    ELSE IF outcome.status = "TIMEOUT" THEN "TIMED_OUT"
    ELSE IF outcome.status = "RAISED" THEN "FAILED"
    ELSE "UNKNOWN"

C18_Moves ==
    {<<"INITIALIZING", "POLLING">>, <<"INITIALIZING", "FAILED">>,
     <<"POLLING", "TRIGGERED">>, <<"POLLING", "TIMED_OUT">>,
     <<"POLLING", "FAILED">>}

C18_StateMachine ==
    /\ [](WatchState # "UNKNOWN")
    /\ [](outcome.status # "NONE" <=> pc = "done")
    /\ [][WatchState' # WatchState =>
            <<WatchState, WatchState'>> \in C18_Moves]_vars
    /\ [][outcome.status # "NONE" =>
            /\ outcome' = outcome
            /\ polled' = polled
            /\ orders' = orders
            /\ exchangeOrders' = exchangeOrders
            /\ sleeps' = sleeps
            /\ pc' = pc]_vars

C18_Witness ==
    /\ WatchState = "TRIGGERED"
    /\ Len(orders) = 2
    /\ Len(polled) = 3
    /\ sleeps = 2

\* C19: with timeout > 0 every watch eventually reaches a terminal state,
\* whatever the feed returns and however many fetches or submissions fail.
C19_Terminates == [](req.timeout > 0 => <>(pc = "done"))

C19_Witness ==
    /\ TimedOutOutcome
    /\ Len(polled) >= 2
    /\ \A i \in Polls : ~polled[i].ok
    /\ orders = <<>>

=============================================================================
